---- MODULE Spec2Model ----
(***************************************************************************)
(* influx-proxy: the Backends write pipeline (backend/backends.go) and the *)
(* InfluxCluster router (backend/cluster.go).                              *)
(*                                                                         *)
(* Spec       the pipeline of one Backends object: callers of Write and    *)
(*            Close, the worker goroutine, the detached flush goroutines   *)
(*            and the RewriteLoop goroutines.                              *)
(***************************************************************************)
EXTENDS Integers, Sequences, FiniteSets, TLC

\* ------------------------------------------------------------------ bounds
\* Number of Write calls the callers make (payloads are numbered 1..MaxWrites).
MaxWrites == 3
\* cfg.MaxRowLimit of the modelled backend.
MaxRowLimit == 2
\* Goroutine slots available to RewriteLoop.
MaxRewriters == 2
\* Keys of one database of a routing table.
MaxKeys == 2
\* Symbols of a measurement name; a key has fewer.
MaxNameLen == 3
\* Patterns of the denylist and of the allowlist.
MaxPatterns == 2
\* Symbols of a generated timestamp token.
MaxTsLen == 2

\* LoadConfig calls of one run.
MaxReloads == 2
\* Write handlers of one run of the reload specification.
MaxRequests == 2

\* Lines of a request payload.
MaxLines == 2

\* Handlers that increment a counter at the same time.
MaxHandlers == 2
\* Increments of the counter in one run.
MaxAdds == 2
\* Ticks of the statistics ticker in one run.
MaxTicks == 2

\* InfluxCluster.Close is called at most MaxCloses times.
MaxCloses == 2

\* make(chan []byte, 16)
WRITE_QUEUE == 16

VARIABLES
    \* ---- Backends fields
    running,            \* bs.running
    ch_write,           \* bs.ch_write: the buffered payloads
    chClosed,           \* close(bs.ch_write) has happened
    buffer,             \* bs.buffer: [nil, data]
    ch_timer,           \* bs.ch_timer != nil
    write_counter,      \* bs.write_counter
    rewriter_running,   \* bs.rewriter_running
    wg,                 \* bs.wg: outstanding flush goroutines
    \* ---- goroutines
    wpc,                \* worker: "loop", "select", "wait", "closeHttp", "closeFb", "done"
    tasks,              \* flush goroutines, in the order Flush started them: [pc, p, res],
                        \* res being "retry" when the upstream was not active or
                        \* answered a transient error, "final" when it answered ok
                        \* or a permanent error
    rw,                 \* RewriteLoop goroutines: slot -> [pc, p, at]
    wr,                 \* the caller of Write: "idle", "send" or "panic"
    nextLine,           \* the next payload a caller writes
    cl,                 \* the caller of Close: "open", "flag", "closed"
    \* ---- HttpBackend and the upstream
    active,             \* HttpBackend.IsActive()
    httpClosed,         \* HttpBackend.Close() has happened
    posted,             \* payloads the upstream acknowledged, in order
    dropped,            \* payloads given up after ErrBadRequest / ErrNotFound
    \* ---- FileBackend
    spool,              \* records appended by fb.Write, in order
    rpos,               \* in-memory read position (records read)
    meta,               \* committed read position (records committed)
    fbClosed,           \* fb.Close() has happened
    \* ---- history
    accepted,           \* payloads whose Write returned nil
    rejected,           \* payloads whose Write returned io.ErrClosedPipe
    panicked,           \* a send on the closed channel happened
    deliverLog,         \* flush payloads in the order of their first post or spool append
    terminal,           \* spool positions whose replay ended ok, ErrBadRequest or ErrNotFound
    retried             \* spool positions whose replay ended with another error

bvars == <<running, ch_write, chClosed, buffer, ch_timer, write_counter,
           rewriter_running, wg, wpc, tasks, rw, wr, nextLine, cl, active,
           httpClosed, posted, dropped, spool, rpos, meta, fbClosed,
           accepted, rejected, panicked, deliverLog, terminal, retried>>


\* ---- InfluxCluster fields
VARIABLES
    m2bs,               \* ic.m2bs: db -> (key -> backend list)
    ForbiddenQuery,     \* ic.ForbiddenQuery
    ObligatedQuery,     \* ic.ObligatedQuery
    stats,              \* ic.stats: PointsWritten, PointsWrittenFail
    lookup,             \* the last GetBackends call and what it returned
    again,              \* what a second call with the same arguments returned
    verdict,            \* the last CheckQuery call and what it returned
    row,                \* the last WriteRow call
    sent                \* the lines that call handed to b.Write, per backend

\* ---- InfluxCluster: reload
VARIABLES
    cfgsrc,             \* ic.cfgsrc: BACKENDS, KEYMAPS, and ic.nexts split on ","
    backends,           \* ic.backends: name -> Backends object
    bas,                \* ic.bas: the next-hop list
    lock,               \* ic.lock: "free" or "W" (held by a writer)
    closed,             \* the Backends objects whose Close was called
    retired,            \* the generations a completed swap replaced
    lc,                 \* the caller of LoadConfig and its locals
    req,                \* a write handler between GetBackends and b.Write
    late                \* the dispatches that went to a closed Backends object

lvars == <<cfgsrc, backends, bas, lock, closed, retired, lc, req, late>>

\* ---- InfluxCluster: point queries
VARIABLES
    apis,               \* each BackendAPI: GetZone(), IsActive(), IsWriteOnly()
    query               \* the last Query call and the backends it forwarded to

qvars == <<apis, query>>

\* ---- InfluxCluster: write requests
VARIABLES
    batch               \* the last Write call: its rows and what the next hops got

wvars == <<batch>>

\* ---- InfluxCluster: statistics
VARIABLES
    blocks,             \* the two Statistics structs: the value of one counter of each
    ptr,                \* ic.stats and ic.counter: which struct each points to
    hnd,                \* handlers inside atomic.AddInt64(&ic.stats.X, 1)
    tk,                 \* the statistics goroutine: "wait", "Flush", "swap", "write"
    tally               \* history: adds, ticks, reported, fresh, stale, lost

svars == <<blocks, ptr, hnd, tk, tally>>

\* ---- InfluxCluster: Close, global and metadata queries
VARIABLES
    cc,                 \* the caller of InfluxCluster.Close and its range loop
    reclosed,           \* the Backends objects whose Close was called once more
    gq,                 \* the last global query and what the client's writer got
    sq                  \* the last ShowQuery call and how it ended

zvars == <<cc, reclosed, gq, sq>>

evars == <<lvars, qvars, wvars, svars, zvars>>

kvars == <<m2bs, ForbiddenQuery, ObligatedQuery, stats, lookup, again, verdict,
           row, sent>>

cvars == <<kvars, evars>>

\* What the reload steps, and what the query steps, leave alone.
xlvars == <<bvars, kvars, qvars, wvars, svars, zvars>>

xqvars == <<bvars, kvars, lvars, wvars, svars, zvars>>

xsvars == <<bvars, kvars, lvars, qvars, wvars, zvars>>

vars == <<bvars, cvars>>

\* ------------------------------------------------------------ collaborators
\* Results of HttpBackend.WriteCompressed.
WriteResults == {"ok", "ErrBadRequest", "ErrNotFound", "ErrOther"}

\* Compress(&buf, p): the gzip of p.
Compress(p) == [gz |-> p]

\* The lines of a compressed payload.
LinesOf(c) == {c.gz[i] : i \in 1..Len(c.gz)}

\* fb.IsData(): is there an undelivered record
IsData == meta < Len(spool)

NilBuffer == [nil |-> TRUE, data |-> <<>>]

\* ------------------------------------------------------- worker-local code
\* The worker's own fields, and the payloads of the flush goroutines a call
\* started.
WorkerState == [buffer |-> buffer, ch_timer |-> ch_timer,
                write_counter |-> write_counter, spawned |-> <<>>]

\* Backends.Flush
Flush(ws) ==
    IF ws.buffer.nil THEN ws
    ELSE LET p == ws.buffer.data IN
         [buffer |-> NilBuffer, ch_timer |-> FALSE, write_counter |-> 0,
          spawned |-> IF Len(p) = 0 THEN ws.spawned ELSE Append(ws.spawned, p)]

\* Backends.WriteBuffer: p is one payload; the buffer holds it newline-terminated.
WriteBuffer(ws, p) ==
    LET counted == ws.write_counter + 1
        buf == IF ws.buffer.nil THEN <<>> ELSE ws.buffer.data
        w == [ws EXCEPT !.write_counter = counted,
                        !.buffer = [nil |-> FALSE, data |-> Append(buf, p)]]
    IN  IF counted >= MaxRowLimit THEN Flush(w)
        ELSE IF ~w.ch_timer THEN [w EXCEPT !.ch_timer = TRUE]
        ELSE w

\* The worker's fields after a call, and the goroutines `go func()` started.
Apply(ws) ==
    /\ buffer' = ws.buffer
    /\ ch_timer' = ws.ch_timer
    /\ write_counter' = ws.write_counter
    /\ wg' = wg + Len(ws.spawned)
    /\ tasks' = tasks \o [i \in 1..Len(ws.spawned) |->
                            [pc |-> "new", p |-> Compress(ws.spawned[i]), res |-> "none"]]

FreeSlots == {s \in 1..MaxRewriters : rw[s].pc = "none"}

\* Idle without the rewriter_running test.
IdleStarts_ignoresFlag == IsData

\* The guard of Backends.Idle.
IdleStarts == ~rewriter_running /\ IsData

\* Backends.Idle: start a RewriteLoop when none runs and the spool holds data.
Idle ==
    IF IdleStarts /\ FreeSlots # {}
    THEN /\ rewriter_running' = TRUE
         /\ rw' = [rw EXCEPT ![CHOOSE s \in FreeSlots : \A t \in FreeSlots : s <= t] =
                                [pc |-> "top", p |-> Compress(<<>>), at |-> 0]]
    ELSE UNCHANGED <<rewriter_running, rw>>

\* ----------------------------------------------------------------- worker
\* for bs.running { ... }: leaving the loop ends the goroutine.
worker_loop ==
    /\ wpc = "loop"
    /\ wpc' = IF running THEN "select" ELSE "done"
    /\ UNCHANGED <<cvars, running, ch_write, chClosed, buffer, ch_timer, write_counter,
                   rewriter_running, wg, tasks, rw, wr, nextLine, cl, active,
                   httpClosed, posted, dropped, spool, rpos, meta, fbClosed,
                   accepted, rejected, panicked, deliverLog, terminal, retried>>

\* case p, ok := <-bs.ch_write with ok: WriteBuffer(p)
worker_recv ==
    /\ wpc = "select"
    /\ ch_write # <<>>
    /\ Apply(WriteBuffer(WorkerState, Head(ch_write)))
    /\ ch_write' = Tail(ch_write)
    /\ wpc' = "loop"
    /\ UNCHANGED <<cvars, running, chClosed, rewriter_running, rw, wr, nextLine, cl,
                   active, httpClosed, posted, dropped, spool, rpos, meta,
                   fbClosed, accepted, rejected, panicked, deliverLog, terminal, retried>>

\* case p, ok := <-bs.ch_write with !ok: Flush, then wg.Wait()
worker_closed ==
    /\ wpc = "select"
    /\ ch_write = <<>>
    /\ chClosed
    /\ Apply(Flush(WorkerState))
    /\ wpc' = "wait"
    /\ UNCHANGED <<cvars, running, ch_write, chClosed, rewriter_running, rw, wr,
                   nextLine, cl, active, httpClosed, posted, dropped, spool,
                   rpos, meta, fbClosed, accepted, rejected, panicked,
                   deliverLog, terminal, retried>>

\* case <-bs.ch_timer: Flush; if !bs.running, wg.Wait() and close
worker_timer ==
    /\ wpc = "select"
    /\ ch_timer
    /\ Apply(Flush(WorkerState))
    /\ wpc' = IF ~running THEN "wait" ELSE "loop"
    /\ UNCHANGED <<cvars, running, ch_write, chClosed, rewriter_running, rw, wr,
                   nextLine, cl, active, httpClosed, posted, dropped, spool,
                   rpos, meta, fbClosed, accepted, rejected, panicked,
                   deliverLog, terminal, retried>>

\* case <-bs.ticker.C: Idle
worker_tick ==
    /\ wpc = "select"
    /\ Idle
    /\ wpc' = "loop"
    /\ UNCHANGED <<cvars, running, ch_write, chClosed, buffer, ch_timer, write_counter,
                   wg, tasks, wr, nextLine, cl, active, httpClosed, posted,
                   dropped, spool, rpos, meta, fbClosed, accepted, rejected,
                   panicked, deliverLog, terminal, retried>>

\* bs.wg.Wait() returns; bs.HttpBackend.Close(); bs.fb.Close(); return
worker_wait ==
    /\ wpc = "wait"
    /\ wg = 0
    /\ wpc' = "closeHttp"
    /\ UNCHANGED <<cvars, running, ch_write, chClosed, buffer, ch_timer, write_counter,
                   rewriter_running, wg, tasks, rw, wr, nextLine, cl, active,
                   httpClosed, posted, dropped, spool, rpos, meta, fbClosed,
                   accepted, rejected, panicked, deliverLog, terminal, retried>>

worker_closeHttp ==
    /\ wpc = "closeHttp"
    /\ httpClosed' = TRUE
    /\ wpc' = "closeFb"
    /\ UNCHANGED <<cvars, running, ch_write, chClosed, buffer, ch_timer, write_counter,
                   rewriter_running, wg, tasks, rw, wr, nextLine, cl, active,
                   posted, dropped, spool, rpos, meta, fbClosed,
                   accepted, rejected, panicked, deliverLog, terminal, retried>>

worker_closeFb ==
    /\ wpc = "closeFb"
    /\ fbClosed' = TRUE
    /\ wpc' = "done"
    /\ UNCHANGED <<cvars, running, ch_write, chClosed, buffer, ch_timer, write_counter,
                   rewriter_running, wg, tasks, rw, wr, nextLine, cl, active,
                   httpClosed, posted, dropped, spool, rpos, meta,
                   accepted, rejected, panicked, deliverLog, terminal, retried>>

\* -------------------------------------------------- detached flush goroutine
\* go func() of Flush, up to `if bs.HttpBackend.IsActive()`
flush_begin(i) ==
    /\ tasks[i].pc = "new"
    /\ tasks' = [tasks EXCEPT ![i].pc = IF active THEN "post" ELSE "spool",
                              ![i].res = IF active THEN @ ELSE "retry"]
    /\ UNCHANGED <<cvars, running, ch_write, chClosed, buffer, ch_timer, write_counter,
                   rewriter_running, wg, wpc, rw, wr, nextLine, cl, active,
                   httpClosed, posted, dropped, spool, rpos, meta, fbClosed,
                   accepted, rejected, panicked, deliverLog, terminal, retried>>

\* What an answer of WriteCompressed is for the payload: "final" (ok, or a
\* permanent error) or "retry" (any other error).
ResultCase(r) == IF r \in {"ok", "ErrBadRequest", "ErrNotFound"} THEN "final" ELSE "retry"

\* The flush goroutine giving up a payload on ok only.
FlushDone_onlyOk(r) == r = "ok"

\* Does the flush goroutine return after WriteCompressed answered r
FlushDone(r) == r \in {"ok", "ErrBadRequest", "ErrNotFound"}

\* err = bs.HttpBackend.WriteCompressed(p); switch err
flush_post(i, r) ==
    /\ tasks[i].pc = "post"
    /\ IF FlushDone(r)
       THEN /\ tasks' = [tasks EXCEPT ![i].pc = "done", ![i].res = ResultCase(r)]
            /\ wg' = wg - 1
            /\ posted' = IF r = "ok" THEN Append(posted, tasks[i].p) ELSE posted
            /\ dropped' = IF r = "ok" THEN dropped ELSE dropped \cup {tasks[i].p}
            /\ deliverLog' = Append(deliverLog, tasks[i].p)
       ELSE /\ tasks' = [tasks EXCEPT ![i].pc = "spool", ![i].res = ResultCase(r)]
            /\ UNCHANGED <<wg, posted, dropped, deliverLog>>
    /\ UNCHANGED <<cvars, running, ch_write, chClosed, buffer, ch_timer, write_counter,
                   rewriter_running, wpc, rw, wr, nextLine, cl, active,
                   httpClosed, spool, rpos, meta, fbClosed,
                   accepted, rejected, panicked, terminal, retried>>

\* err = bs.fb.Write(p); defer bs.wg.Done()
flush_spool(i) ==
    /\ tasks[i].pc = "spool"
    /\ tasks' = [tasks EXCEPT ![i].pc = "done"]
    /\ wg' = wg - 1
    /\ IF fbClosed
       THEN UNCHANGED <<spool, deliverLog>>
       ELSE /\ spool' = Append(spool, tasks[i].p)
            /\ deliverLog' = Append(deliverLog, tasks[i].p)
    /\ UNCHANGED <<cvars, running, ch_write, chClosed, buffer, ch_timer, write_counter,
                   rewriter_running, wpc, rw, wr, nextLine, cl, active,
                   httpClosed, posted, dropped, rpos, meta, fbClosed,
                   accepted, rejected, panicked, terminal, retried>>

\* ------------------------------------------------------------- RewriteLoop
NoRewriter == [pc |-> "none", p |-> Compress(<<>>), at |-> 0]

\* for bs.fb.IsData() { if !bs.running {return}; if !IsActive() {sleep; continue};
\* Rewrite() up to p, err := bs.fb.Read() } bs.rewriter_running = false
RewriteLoop(s) ==
    /\ rw[s].pc = "top"
    /\ IF ~IsData
       THEN /\ rewriter_running' = FALSE
            /\ rw' = [rw EXCEPT ![s] = NoRewriter]
            /\ UNCHANGED rpos
       ELSE IF ~running
       THEN /\ rw' = [rw EXCEPT ![s] = NoRewriter]
            /\ UNCHANGED <<rewriter_running, rpos>>
       ELSE IF ~active
       THEN UNCHANGED <<rewriter_running, rw, rpos>>
       ELSE IF rpos < Len(spool)
       THEN /\ rw' = [rw EXCEPT ![s] = [pc |-> "post", p |-> spool[rpos + 1],
                                         at |-> rpos + 1]]
            /\ rpos' = rpos + 1
            /\ UNCHANGED rewriter_running
       ELSE UNCHANGED <<rewriter_running, rw, rpos>>
    /\ UNCHANGED <<cvars, running, ch_write, chClosed, buffer, ch_timer, write_counter,
                   wg, wpc, tasks, wr, nextLine, cl, active,
                   httpClosed, posted, dropped, spool, meta, fbClosed,
                   accepted, rejected, panicked, deliverLog, terminal, retried>>

\* Rewrite committing whatever the upstream answered.
RewriteCommits_anyAnswer(r) == TRUE

\* Rewrite never committing the read position.
RewriteCommits_never(r) == FALSE

\* Does Rewrite call UpdateMeta after WriteCompressed answered r
RewriteCommits(r) == r \in {"ok", "ErrBadRequest", "ErrNotFound"}

\* Rewrite from err = bs.HttpBackend.WriteCompressed(p): UpdateMeta commits the
\* read position, RollbackMeta restores the committed one.
Rewrite(s, r) ==
    /\ rw[s].pc = "post"
    /\ rw' = [rw EXCEPT ![s].pc = "top"]
    /\ posted' = IF r = "ok" THEN Append(posted, rw[s].p) ELSE posted
    /\ dropped' = IF r \in {"ErrBadRequest", "ErrNotFound"}
                  THEN dropped \cup {rw[s].p} ELSE dropped
    /\ terminal' = IF r \in {"ok", "ErrBadRequest", "ErrNotFound"}
                   THEN terminal \cup {rw[s].at} ELSE terminal
    /\ retried' = IF r \in {"ok", "ErrBadRequest", "ErrNotFound"}
                  THEN retried ELSE retried \cup {rw[s].at}
    /\ IF RewriteCommits(r)
       THEN meta' = rpos /\ UNCHANGED rpos
       ELSE rpos' = meta /\ UNCHANGED meta
    /\ UNCHANGED <<cvars, running, ch_write, chClosed, buffer, ch_timer, write_counter,
                   rewriter_running, wg, wpc, tasks, wr, nextLine, cl, active,
                   httpClosed, spool, fbClosed,
                   accepted, rejected, panicked, deliverLog>>

\* ---------------------------------------------------------------- callers
\* Backends.Write: if !bs.running { return io.ErrClosedPipe }
Write_check ==
    /\ wr = "idle"
    /\ nextLine <= MaxWrites
    /\ IF ~running
       THEN /\ rejected' = rejected \cup {nextLine}
            /\ nextLine' = nextLine + 1
            /\ UNCHANGED wr
       ELSE /\ wr' = "send"
            /\ UNCHANGED <<rejected, nextLine>>
    /\ UNCHANGED <<cvars, running, ch_write, chClosed, buffer, ch_timer, write_counter,
                   rewriter_running, wg, wpc, tasks, rw, cl, active,
                   httpClosed, posted, dropped, spool, rpos, meta, fbClosed,
                   accepted, panicked, deliverLog, terminal, retried>>

\* Backends.Write: bs.ch_write <- p (a send on a closed channel panics; a send
\* on a full channel waits)
Write_send ==
    /\ wr = "send"
    /\ chClosed \/ Len(ch_write) < WRITE_QUEUE
    /\ IF chClosed
       THEN /\ panicked' = TRUE
            /\ wr' = "panic"
            /\ UNCHANGED <<ch_write, accepted, nextLine>>
       ELSE /\ ch_write' = Append(ch_write, nextLine)
            /\ accepted' = accepted \cup {nextLine}
            /\ nextLine' = nextLine + 1
            /\ wr' = "idle"
            /\ UNCHANGED panicked
    /\ UNCHANGED <<cvars, running, chClosed, buffer, ch_timer, write_counter,
                   rewriter_running, wg, wpc, tasks, rw, cl, active,
                   httpClosed, posted, dropped, spool, rpos, meta, fbClosed,
                   rejected, deliverLog, terminal, retried>>

\* Backends.Close: bs.running = false
Close_flag ==
    /\ cl = "open"
    /\ running' = FALSE
    /\ cl' = "flag"
    /\ UNCHANGED <<cvars, ch_write, chClosed, buffer, ch_timer, write_counter,
                   rewriter_running, wg, wpc, tasks, rw, wr, nextLine, active,
                   httpClosed, posted, dropped, spool, rpos, meta, fbClosed,
                   accepted, rejected, panicked, deliverLog, terminal, retried>>

\* Backends.Close: close(bs.ch_write)
Close_chan ==
    /\ cl = "flag"
    /\ chClosed' = TRUE
    /\ cl' = "closed"
    /\ UNCHANGED <<cvars, running, ch_write, buffer, ch_timer, write_counter,
                   rewriter_running, wg, wpc, tasks, rw, wr, nextLine, active,
                   httpClosed, posted, dropped, spool, rpos, meta, fbClosed,
                   accepted, rejected, panicked, deliverLog, terminal, retried>>

\* The health check of HttpBackend refreshes the cached IsActive().
CheckActive ==
    /\ ~httpClosed
    /\ active' = ~active
    /\ UNCHANGED <<cvars, running, ch_write, chClosed, buffer, ch_timer, write_counter,
                   rewriter_running, wg, wpc, tasks, rw, wr, nextLine, cl,
                   httpClosed, posted, dropped, spool, rpos, meta, fbClosed,
                   accepted, rejected, panicked, deliverLog, terminal, retried>>

\* ============================================================ InfluxCluster
\* Strings are sequences of symbols. A symbol is one byte, written as a
\* one-character string, except "_default_", which stands for its nine bytes;
\* no symbol is a prefix of another, so the prefix relation on symbol
\* sequences is the prefix relation on the bytes.
\* strings.HasPrefix
HasPrefix(s, prefix) ==
    /\ Len(prefix) <= Len(s)
    /\ SubSeq(s, 1, Len(prefix)) = prefix

DefaultKey == <<"_default_">>

NilBackends == <<>>

\* The orders in which `range keyMap` can visit the keys S.
Orders(S) ==
    {o \in [1..Cardinality(S) -> S] : \A i, j \in 1..Cardinality(S) : i # j => o[i] # o[j]}

\* for k, v := range keyMap { if strings.HasPrefix(measurement, k) {...; break} }:
\* the position in the visiting order of the key the loop stops at, 0 if none.
RECURSIVE RangeKeyMap(_, _, _)
RangeKeyMap(order, i, measurement) ==
    IF i > Len(order) THEN 0
    ELSE IF HasPrefix(measurement, order[i]) THEN i
    ELSE RangeKeyMap(order, i + 1, measurement)

\* GetBackends trying _default_ before the prefix scan.
GetBackends_defaultFirst(measurement, db, order) ==
    IF db \notin DOMAIN m2bs THEN [backends |-> NilBackends, ok |-> FALSE]
    ELSE LET keyMap == m2bs[db]
             hit == RangeKeyMap(order, 1, measurement)
         IN  IF measurement \in DOMAIN keyMap
             THEN [backends |-> keyMap[measurement], ok |-> TRUE]
             ELSE IF DefaultKey \in DOMAIN keyMap
             THEN [backends |-> keyMap[DefaultKey], ok |-> TRUE]
             ELSE IF hit # 0
             THEN [backends |-> keyMap[order[hit]], ok |-> TRUE]
             ELSE [backends |-> NilBackends, ok |-> FALSE]

\* InfluxCluster.GetBackends, `order` being the order the range loop visits
\* the keys of ic.m2bs[db] in.
GetBackends(measurement, db, order) ==
    IF db \notin DOMAIN m2bs THEN [backends |-> NilBackends, ok |-> FALSE]
    ELSE LET keyMap == m2bs[db]
             hit == RangeKeyMap(order, 1, measurement)
         IN  IF measurement \in DOMAIN keyMap
             THEN [backends |-> keyMap[measurement], ok |-> TRUE]
             ELSE IF hit # 0
             THEN [backends |-> keyMap[order[hit]], ok |-> TRUE]
             ELSE IF DefaultKey \in DOMAIN keyMap
             THEN [backends |-> keyMap[DefaultKey], ok |-> TRUE]
             ELSE [backends |-> NilBackends, ok |-> FALSE]

\* The visiting orders of a GetBackends call for db.
RangeOrders(db) == IF db \in DOMAIN m2bs THEN Orders(DOMAIN m2bs[db]) ELSE {<<>>}

\* ------------------------------------------------------------ query policy
\* A compiled regular expression is the set of queries it matches; a pattern
\* regexp.Compile rejects is not valid.
MatchString(re, q) == q \in re.matches

\* InfluxCluster.ForbidQuery
ForbidQuery(re) ==
    /\ Len(ForbiddenQuery) < MaxPatterns
    /\ IF re.valid
       THEN ForbiddenQuery' = Append(ForbiddenQuery, re)
       ELSE UNCHANGED ForbiddenQuery
    /\ verdict' = [verdict EXCEPT !.called = FALSE]
    /\ UNCHANGED <<bvars, evars, m2bs, ObligatedQuery, stats, lookup, again, row, sent>>

\* InfluxCluster.EnsureQuery
EnsureQuery(re) ==
    /\ Len(ObligatedQuery) < MaxPatterns
    /\ IF re.valid
       THEN ObligatedQuery' = Append(ObligatedQuery, re)
       ELSE UNCHANGED ObligatedQuery
    /\ verdict' = [verdict EXCEPT !.called = FALSE]
    /\ UNCHANGED <<bvars, evars, m2bs, ForbiddenQuery, stats, lookup, again, row, sent>>

\* for _, fq := range list { if fq.MatchString(q) {...} }
RECURSIVE AnyMatch(_, _, _)
AnyMatch(list, i, q) ==
    IF i > Len(list) THEN FALSE
    ELSE IF MatchString(list[i], q) THEN TRUE
    ELSE AnyMatch(list, i + 1, q)

\* CheckQuery consulting the allowlist before the denylist.
CheckQuery_allowFirst(q) ==
    IF Len(ObligatedQuery) # 0 /\ AnyMatch(ObligatedQuery, 1, q)
    THEN "nil"
    ELSE IF Len(ForbiddenQuery) # 0 /\ AnyMatch(ForbiddenQuery, 1, q)
    THEN "ErrQueryForbidden"
    ELSE IF Len(ObligatedQuery) # 0 THEN "ErrQueryForbidden"
    ELSE "nil"

\* InfluxCluster.CheckQuery: "nil" or "ErrQueryForbidden"
CheckQuery(q) ==
    IF Len(ForbiddenQuery) # 0 /\ AnyMatch(ForbiddenQuery, 1, q)
    THEN "ErrQueryForbidden"
    ELSE IF Len(ObligatedQuery) # 0
    THEN IF AnyMatch(ObligatedQuery, 1, q) THEN "nil" ELSE "ErrQueryForbidden"
    ELSE "nil"

\* ------------------------------------------------------------------ int64
\* An int64 is [neg, hi, lo], standing for hi * Limb + lo, negated when neg,
\* with 0 <= lo < Limb. The timestamps of the model stay below 2^31 * Limb,
\* so no operation of the code overflows its 64 bits.
Limb == 10 ^ 8

Zero == [neg |-> FALSE, hi |-> 0, lo |-> 0]

DigitChars == <<"0", "1", "2", "3", "4", "5", "6", "7", "8", "9">>

\* The byte of a symbol of a timestamp token.
Ord(c) == IF c = "-" THEN 45 ELSE 47 + (CHOOSE i \in 1..10 : DigitChars[i] = c)

\* ans*10 + int64(b), b a byte
MulAdd(ans, b) ==
    LET l == ans.lo * 10 + b
    IN  [neg |-> FALSE, hi |-> ans.hi * 10 + (l \div Limb), lo |-> l % Limb]

\* BytesToInt64: ans = ans*10 + int64(buf[i]-'0'), the subtraction in uint8
RECURSIVE BytesToInt64Loop(_, _, _)
BytesToInt64Loop(buf, i, ans) ==
    IF i > Len(buf) THEN ans
    ELSE BytesToInt64Loop(buf, i + 1, MulAdd(ans, (Ord(buf[i]) - 48) % 256))

BytesToInt64(buf) == BytesToInt64Loop(buf, 1, Zero)

RECURSIVE NatDigits(_)
NatDigits(n) ==
    IF n < 10 THEN <<DigitChars[n + 1]>>
    ELSE NatDigits(n \div 10) \o <<DigitChars[(n % 10) + 1]>>

RECURSIVE PadLimb(_)
PadLimb(digits) == IF Len(digits) >= 8 THEN digits ELSE PadLimb(<<"0">> \o digits)

\* Int64ToBytes: strconv.FormatInt(i, 10)
Int64ToBytes(x) ==
    LET mag == IF x.hi = 0 THEN NatDigits(x.lo)
               ELSE NatDigits(x.hi) \o PadLimb(NatDigits(x.lo))
    IN  IF x.neg /\ (x.hi # 0 \/ x.lo # 0) THEN <<"-">> \o mag ELSE mag

\* models.GetPrecisionMultiplier: the nanoseconds of one unit of the precision
GetPrecisionMultiplier(precision) ==
    CASE precision = "u"  -> [neg |-> FALSE, hi |-> 0, lo |-> 1000]
      [] precision = "ms" -> [neg |-> FALSE, hi |-> 0, lo |-> 1000000]
      [] precision = "s"  -> [neg |-> FALSE, hi |-> 10, lo |-> 0]
      [] precision = "m"  -> [neg |-> FALSE, hi |-> 600, lo |-> 0]
      [] precision = "h"  -> [neg |-> FALSE, hi |-> 36000, lo |-> 0]
      [] OTHER            -> [neg |-> FALSE, hi |-> 0, lo |-> 1]

\* nano / d * d, the division truncating toward zero. Every multiplier is
\* either a divisor of Limb or a multiple of it.
Truncate(nano, d) ==
    IF d.hi = 0
    THEN [nano EXCEPT !.lo = (nano.lo \div d.lo) * d.lo]
    ELSE [nano EXCEPT !.hi = (nano.hi \div d.hi) * d.hi, !.lo = 0]

\* ------------------------------------------------------------------ lines
\* bytes.TrimRight(line, " \t\r\n")
RECURSIVE TrimRight(_)
TrimRight(line) ==
    IF Len(line) > 0 /\ line[Len(line)] \in {" ", "\t", "\r", "\n"}
    THEN TrimRight(SubSeq(line, 1, Len(line) - 1))
    ELSE line

\* ScanKey: the bytes up to the first unescaped space or comma
RECURSIVE ScanKeyLoop(_, _, _)
ScanKeyLoop(pointbuf, i, keyslice) ==
    IF i > Len(pointbuf) THEN [key |-> <<>>, err |-> "EOF"]
    ELSE IF pointbuf[i] = "\\"
    THEN IF i + 1 > Len(pointbuf)
         THEN [key |-> <<>>, err |-> "panic"]
         ELSE ScanKeyLoop(pointbuf, i + 2, Append(keyslice, pointbuf[i + 1]))
    ELSE IF pointbuf[i] \in {" ", ","}
    THEN [key |-> keyslice, err |-> "nil"]
    ELSE ScanKeyLoop(pointbuf, i + 1, Append(keyslice, pointbuf[i]))

ScanKey(pointbuf) == ScanKeyLoop(pointbuf, 1, <<>>)

\* bytes.Split(line, []byte(" "))
RECURSIVE SplitLoop(_, _, _, _)
SplitLoop(line, i, cur, acc) ==
    IF i > Len(line) THEN Append(acc, cur)
    ELSE IF line[i] = " " THEN SplitLoop(line, i + 1, <<>>, Append(acc, cur))
    ELSE SplitLoop(line, i + 1, Append(cur, line[i]), acc)

Split(line) == SplitLoop(line, 1, <<>>, <<>>)

\* bytes.Join(parts, []byte(" "))
RECURSIVE Join(_)
Join(parts) ==
    IF Len(parts) = 0 THEN <<>>
    ELSE IF Len(parts) = 1 THEN parts[1]
    ELSE parts[1] \o <<" ">> \o Join(Tail(parts))

\* The timestamp WriteRow computes for the split line.
RowNano(lines, precision, now) ==
    LET d == GetPrecisionMultiplier(precision)
    IN  IF Len(lines) = 2 THEN Truncate(now, d)
        ELSE IF Len(lines) = 3 THEN Truncate(BytesToInt64(lines[Len(lines)]), d)
        ELSE Zero

\* The line WriteRow builds in buf.
RowLine(line, precision, now) ==
    LET lines == Split(line)
        length == Len(lines)
        start == IF length = 2 THEN line \o <<" ">>
                 ELSE IF length = 3 THEN Join(SubSeq(lines, 1, length - 1)) \o <<" ">>
                 ELSE <<>>
    IN  start \o Int64ToBytes(RowNano(lines, precision, now))

Backends == {"B1", "B2"}

\* for _, b := range bs { err = b.Write(line); if err != nil {...; return} }:
\* what each backend was handed, and whether a Write failed.
RECURSIVE WriteEach(_, _, _, _, _)
WriteEach(bs, i, line, failing, got) ==
    IF i > Len(bs) THEN [sent |-> got, failed |-> FALSE]
    ELSE IF bs[i] \in failing THEN [sent |-> got, failed |-> TRUE]
    ELSE WriteEach(bs, i + 1, line, failing,
                   [got EXCEPT ![bs[i]] = Append(got[bs[i]], line)])

NothingSent == [b \in Backends |-> <<>>]

\* InfluxCluster.WriteRow as a function: st the counters and got the lines the
\* backends hold before the call. now is time.Now().UnixNano(), order the
\* order the range loop of GetBackends visits the keys in, failing the
\* backends whose Write returns an error. kind tells how the call ended:
\* "empty" (blank line), "panic" (ScanKey indexes past the line), "scan",
\* "route", "write" (the three failures that are counted) or "ok".
WriteRowOutcome(line0, precision, db, now, order, failing, st, got) ==
    LET line == TrimRight(line0)
        scan == ScanKey(line)
        bs == GetBackends(scan.key, db, order)
        out == WriteEach(bs.backends, 1, RowLine(line, precision, now), failing, got)
        fail == [st EXCEPT !.PointsWritten = @ + 1, !.PointsWrittenFail = @ + 1]
        pass == [st EXCEPT !.PointsWritten = @ + 1]
        none == [line |-> line0, kind |-> "empty", dests |-> <<>>, stats |-> pass,
                 sent |-> got]
    IN  IF Len(line) = 0 THEN none
        ELSE IF scan.err = "panic" THEN [none EXCEPT !.kind = "panic"]
        ELSE IF scan.err # "nil" THEN [none EXCEPT !.kind = "scan", !.stats = fail]
        ELSE IF ~bs.ok THEN [none EXCEPT !.kind = "route", !.stats = fail]
        ELSE [none EXCEPT !.kind = IF out.failed THEN "write" ELSE "ok",
                          !.dests = bs.backends,
                          !.stats = IF out.failed THEN fail ELSE pass,
                          !.sent = out.sent]

\* InfluxCluster.WriteRow. A panic of ScanKey ends the handler.
WriteRow(line0, precision, db, now, order, failing) ==
    LET o == WriteRowOutcome(line0, precision, db, now, order, failing, stats, NothingSent)
    IN  /\ row' = [called |-> TRUE, line |-> line0, precision |-> precision,
                   db |-> db, now |-> now, panic |-> o.kind = "panic"]
        /\ stats' = o.stats
        /\ sent' = o.sent
        /\ UNCHANGED <<bvars, evars, m2bs, ForbiddenQuery, ObligatedQuery, lookup, again, verdict>>

\* ------------------------------------------------------------ write request
\* bytes.IndexByte: the position of the first c, 0 if there is none
IndexByte(buf, c) ==
    IF \E i \in 1..Len(buf) : buf[i] = c
    THEN CHOOSE i \in 1..Len(buf) : buf[i] = c /\ \A j \in 1..(i - 1) : buf[j] # c
    ELSE 0

\* buf.ReadBytes('\n'): the bytes up to and including the first newline, or
\* all of them, and what the buffer is left with.
ReadBytes(buf) ==
    LET i == IndexByte(buf, "\n")
    IN  IF i = 0 THEN [line |-> buf, rest |-> <<>>]
        ELSE [line |-> SubSeq(buf, 1, i), rest |-> SubSeq(buf, i + 1, Len(buf))]

\* for { line, err = buf.ReadBytes('\n'); if len(line) == 0 { break };
\*       ic.WriteRow(line, precision, db) }
RECURSIVE WriteLoop(_, _, _, _, _, _, _)
WriteLoop(buf, precision, db, now, orders, failing, acc) ==
    LET read == ReadBytes(buf)
        o == WriteRowOutcome(read.line, precision, db, now, orders[Len(acc.rows) + 1],
                             failing, acc.stats, acc.sent)
        next == [stats |-> o.stats, sent |-> o.sent,
                 rows |-> Append(acc.rows, [line |-> o.line, kind |-> o.kind,
                                            dests |-> o.dests,
                                            fails |-> o.stats.PointsWrittenFail
                                                        - acc.stats.PointsWrittenFail]),
                 panic |-> o.kind = "panic"]
    IN  IF Len(read.line) = 0 THEN acc
        ELSE IF next.panic THEN next
        ELSE WriteLoop(read.rest, precision, db, now, orders, failing, next)

NoNexts == [b \in Backends |-> <<>>]

\* The next-hop loop reaching the first peer only.
ForwardNexts_first(list, i, p, got) ==
    IF Len(list) = 0 THEN got ELSE [got EXCEPT ![list[1]] = Append(@, p)]

\* for _, n := range ic.bas { err = n.Write(p) }: what each peer was handed
RECURSIVE ForwardNexts(_, _, _, _)
ForwardNexts(list, i, p, got) ==
    IF i > Len(list) THEN got
    ELSE ForwardNexts(list, i + 1, p, [got EXCEPT ![list[i]] = Append(@, p)])

\* InfluxCluster.Write. orders gives, for each row, the order the range loop
\* of GetBackends visits the keys in. A panic of ScanKey ends the handler.
Write(p, precision, db, now, orders, failing) ==
    LET acc == WriteLoop(p, precision, db, now, orders, failing,
                         [stats |-> stats, sent |-> NothingSent, rows |-> <<>>,
                          panic |-> FALSE])
    IN  /\ batch' = [called |-> TRUE, p |-> p, db |-> db, failing |-> failing,
                     rows |-> acc.rows, panic |-> acc.panic,
                     nexts |-> IF acc.panic THEN NoNexts
                               ELSE ForwardNexts(bas, 1, p, NoNexts)]
        /\ stats' = acc.stats
        /\ sent' = acc.sent
        /\ UNCHANGED <<bvars, lvars, qvars, svars, zvars, m2bs, ForbiddenQuery,
                       ObligatedQuery, lookup, again, verdict, row>>

\* ------------------------------------------------------------ point query
\* ic.Zone
Zone == "z1"

Zones == {"z1", "z2"}

\* for _, api := range apis { ... err = api.Query(w, req); if err == nil { return } }:
\* the first loop takes the backends of ic.Zone that are active and not
\* write-only, the second those of other zones that are active. answering are
\* the backends whose Query returns nil.
RECURSIVE RangeApis(_, _, _, _, _)
RangeApis(list, i, local, answering, forwarded) ==
    IF i > Len(list) THEN [forwarded |-> forwarded, returned |-> FALSE]
    ELSE LET api == apis[list[i]]
             skip == IF local
                     THEN api.zone # Zone \/ ~api.active \/ api.writeOnly
                     ELSE api.zone = Zone \/ ~api.active
         IN  IF skip THEN RangeApis(list, i + 1, local, answering, forwarded)
             ELSE IF list[i] \in answering
             THEN [forwarded |-> Append(forwarded, list[i]), returned |-> TRUE]
             ELSE RangeApis(list, i + 1, local, answering, Append(forwarded, list[i]))

\* InfluxCluster.Query from apis, ok := ic.GetBackends(key, db): a point query
\* that passed the policy.
Query(key, db, order, answering) ==
    LET got == GetBackends(key, db, order)
        same == RangeApis(got.backends, 1, TRUE, answering, <<>>)
        other == RangeApis(got.backends, 1, FALSE, answering, same.forwarded)
    IN  /\ query' = [called |-> TRUE, apis |-> apis,
                     forwarded |-> IF ~got.ok THEN <<>>
                                   ELSE IF same.returned THEN same.forwarded
                                   ELSE other.forwarded,
                     status |-> IF got.ok /\ (same.returned \/ other.returned)
                                THEN 200 ELSE 400]
        /\ UNCHANGED <<xqvars, apis>>

\* The health check of a backend refreshes its IsActive().
CheckApi(b) ==
    /\ apis' = [apis EXCEPT ![b].active = ~@]
    /\ UNCHANGED <<xqvars, query>>

\* -------------------------------------------------------------- statistics
\* The two Statistics structs NewInfluxCluster allocates.
Structs == {"s1", "s2"}

\* atomic.AddInt64(&ic.stats.X, 1): the handler evaluates ic.stats
AddInt64_load(h) ==
    /\ hnd[h].pc = "idle"
    /\ tally.adds < MaxAdds
    /\ hnd' = [hnd EXCEPT ![h] = [pc |-> "add", p |-> ptr.stats]]
    /\ tally' = [tally EXCEPT !.adds = @ + 1]
    /\ UNCHANGED <<xsvars, blocks, ptr, tk>>

\* atomic.AddInt64(&ic.stats.X, 1): the add on the struct the handler holds.
\* fresh counts the increments of a struct that no WriteStatistics read yet,
\* stale those made on the struct ic.counter points to.
AddInt64_add(h) ==
    /\ hnd[h].pc = "add"
    /\ blocks' = [blocks EXCEPT ![hnd[h].p] = @ + 1]
    /\ hnd' = [hnd EXCEPT ![h].pc = "idle"]
    /\ tally' = [tally EXCEPT !.fresh[hnd[h].p] = @ + 1,
                              !.stale = IF hnd[h].p = ptr.counter /\ tally.ticks > 0
                                        THEN @ + 1 ELSE @]
    /\ UNCHANGED <<xsvars, ptr, tk>>

\* statistics: <-ic.ticker.C
statistics_tick ==
    /\ tk = "wait"
    /\ tally.ticks < MaxTicks
    /\ tk' = "Flush"
    /\ UNCHANGED <<xsvars, blocks, ptr, hnd, tally>>

\* statistics: ic.Flush() zeroes the struct ic.counter points to. lost counts
\* the increments it zeroes that no WriteStatistics read.
statistics_Flush ==
    /\ tk = "Flush"
    /\ blocks' = [blocks EXCEPT ![ptr.counter] = 0]
    /\ tally' = [tally EXCEPT !.lost = @ + tally.fresh[ptr.counter],
                              !.fresh[ptr.counter] = 0]
    /\ tk' = "swap"
    /\ UNCHANGED <<xsvars, ptr, hnd>>

\* statistics: ic.counter = atomic.SwapPointer(&ic.stats, ic.counter)
statistics_swap ==
    /\ tk = "swap"
    /\ ptr' = [stats |-> ptr.counter, counter |-> ptr.stats]
    /\ tally' = [tally EXCEPT !.ticks = @ + 1]
    /\ tk' = "write"
    /\ UNCHANGED <<xsvars, blocks, hnd>>

\* statistics: ic.WriteStatistics() reads the struct ic.counter points to
statistics_WriteStatistics ==
    /\ tk = "write"
    /\ tally' = [tally EXCEPT !.reported = @ + blocks[ptr.counter],
                              !.fresh[ptr.counter] = 0]
    /\ tk' = "wait"
    /\ UNCHANGED <<xsvars, blocks, ptr, hnd>>

\* ----------------------------------------------------------------- reload
\* A Backends object NewBackends made: its name and the LoadConfig call that
\* made it.
NewBackendsObject(name, gen) == [name |-> name, gen |-> gen]

\* for _, name := range names { b, ok := backends[name];
\*   if !ok { err = ErrBackendNotExist; continue }; list = append(list, b) }:
\* the objects of the known names, and the err the loop leaves behind.
RECURSIVE RangeNames(_, _, _, _)
RangeNames(names, i, known, acc) ==
    IF i > Len(names) THEN acc
    ELSE IF names[i] \notin DOMAIN known
    THEN RangeNames(names, i + 1, known, [acc EXCEPT !.err = "ErrBackendNotExist"])
    ELSE RangeNames(names, i + 1, known,
                    [acc EXCEPT !.list = Append(acc.list, known[names[i]])])

\* InfluxCluster.loadBackends, gen numbering the call. NewBackends succeeds.
loadBackends(gen) ==
    LET made == [name \in cfgsrc.BACKENDS |-> NewBackendsObject(name, gen)]
        nexts == RangeNames(cfgsrc.nexts, 1, made, [list |-> <<>>, err |-> "nil"])
    IN  [backends |-> made, bas |-> nexts.list, err |-> nexts.err]

\* InfluxCluster.loadMeasurements: err is assigned in the innermost loop and
\* returned as the loops leave it.
loadMeasurements(made) ==
    LET m_map == cfgsrc.KEYMAPS
        each(db, k) == RangeNames(m_map[db][k], 1, made, [list |-> <<>>, err |-> "nil"])
        unknown == \E db \in DOMAIN m_map : \E k \in DOMAIN m_map[db] :
                       each(db, k).err # "nil"
    IN  [m2bs |-> [db \in DOMAIN m_map |-> [k \in DOMAIN m_map[db] |-> each(db, k).list]],
         err |-> IF unknown THEN "ErrBackendNotExist" ELSE "nil"]

NoLoad == [pc |-> "idle", n |-> 0, backends |-> <<>>, bas |-> <<>>, m2bs |-> <<>>,
           orig_backends |-> <<>>, done |-> {}, err |-> "nil"]

\* LoadConfig: loadBackends and loadMeasurements, each followed by
\* `if err != nil { return }`.
LoadConfig_load ==
    /\ lc.pc \in {"idle", "returned"}
    /\ lc.n < MaxReloads
    /\ LET n == lc.n + 1
           lb == loadBackends(n)
           lm == loadMeasurements(lb.backends)
       IN  lc' = IF lb.err # "nil"
                 THEN [NoLoad EXCEPT !.pc = "returned", !.n = n, !.err = lb.err]
                 ELSE IF lm.err # "nil"
                 THEN [NoLoad EXCEPT !.pc = "returned", !.n = n, !.err = lm.err]
                 ELSE [NoLoad EXCEPT !.pc = "lock", !.n = n, !.backends = lb.backends,
                                     !.bas = lb.bas, !.m2bs = lm.m2bs]
    /\ UNCHANGED <<xlvars, cfgsrc, backends, bas, lock, closed, retired, req, late>>

\* ic.lock.Lock()
LoadConfig_lock ==
    /\ lc.pc = "lock"
    /\ lock = "free"
    /\ lock' = "W"
    /\ lc' = [lc EXCEPT !.pc = "backends"]
    /\ UNCHANGED <<xlvars, cfgsrc, backends, bas, closed, retired, req, late>>

\* orig_backends := ic.backends; ic.backends = backends
LoadConfig_backends ==
    /\ lc.pc = "backends"
    /\ lc' = [lc EXCEPT !.pc = "bas", !.orig_backends = backends]
    /\ backends' = lc.backends
    /\ UNCHANGED <<xlvars, cfgsrc, bas, lock, closed, retired, req, late>>

\* ic.bas = bas
LoadConfig_bas ==
    /\ lc.pc = "bas"
    /\ lc' = [lc EXCEPT !.pc = "m2bs"]
    /\ bas' = lc.bas
    /\ UNCHANGED <<xlvars, cfgsrc, backends, lock, closed, retired, req, late>>

\* ic.m2bs = m2bs; ic.lock.Unlock()
LoadConfig_m2bs ==
    /\ lc.pc = "m2bs"
    /\ lc' = [lc EXCEPT !.pc = "close"]
    /\ m2bs' = lc.m2bs
    /\ lock' = "free"
    /\ retired' = retired \cup {lc.orig_backends[name].gen : name \in DOMAIN lc.orig_backends}
    /\ UNCHANGED <<bvars, qvars, wvars, svars, zvars, ForbiddenQuery, ObligatedQuery, stats, lookup, again,
                   verdict, row, sent, cfgsrc, backends, bas, closed, req, late>>

\* LoadConfig closing the objects it has just installed.
CloseList_installed(l) == {l.backends[name] : name \in DOMAIN l.backends}

\* The objects LoadConfig closes after the swap.
CloseList(l) == {l.orig_backends[name] : name \in DOMAIN l.orig_backends}

\* for name, bs := range orig_backends { err = bs.Close() }: one Close.
\* Backends.Close closes ch_write, and closing a closed channel panics.
LoadConfig_close(bs) ==
    /\ lc.pc = "close"
    /\ bs \in CloseList(lc) \ lc.done
    /\ IF bs \in closed
       THEN /\ reclosed' = reclosed \cup {bs}
            /\ lc' = [lc EXCEPT !.pc = "panic"]
            /\ UNCHANGED closed
       ELSE /\ closed' = closed \cup {bs}
            /\ lc' = [lc EXCEPT !.done = @ \cup {bs}]
            /\ UNCHANGED reclosed
    /\ UNCHANGED <<bvars, kvars, qvars, wvars, svars, cc, gq, sq, cfgsrc, backends, bas,
                   lock, retired, req, late>>

\* the range loop is over: return
LoadConfig_return ==
    /\ lc.pc = "close"
    /\ CloseList(lc) \subseteq lc.done
    /\ lc' = [lc EXCEPT !.pc = "returned", !.done = {}, !.err = "nil"]
    /\ UNCHANGED <<xlvars, cfgsrc, backends, bas, lock, closed, retired, req, late>>

NoRequest == [pc |-> "idle", n |-> 0, bs |-> <<>>, retired |-> {}]

\* WriteRow: bs, ok := ic.GetBackends(key, db), under ic.lock.RLock()
Request_lookup(measurement, db) ==
    /\ req.pc = "idle"
    /\ req.n < MaxRequests
    /\ lock # "W"
    /\ \E order \in RangeOrders(db) :
          LET got == GetBackends(measurement, db, order)
          IN  req' = [pc |-> "write", n |-> req.n + 1, bs |-> got.backends,
                      retired |-> retired]
    /\ UNCHANGED <<xlvars, cfgsrc, backends, bas, lock, closed, retired, lc, late>>

\* The dispatches of a handler that reach a closed object, with the
\* generations that were retired when the handler looked the list up.
Dispatch(list, seen) ==
    {[bs |-> list[i], retired |-> seen] : i \in {j \in 1..Len(list) : list[j] \in closed}}

\* WriteRow: for _, b := range bs { err = b.Write(line) }
Request_write ==
    /\ req.pc = "write"
    /\ late' = late \cup Dispatch(req.bs, req.retired)
    /\ req' = [req EXCEPT !.pc = "idle"]
    /\ UNCHANGED <<xlvars, cfgsrc, backends, bas, lock, closed, retired, lc>>

\* Write: ic.lock.RLock(); for _, n := range ic.bas { err = n.Write(p) }
Request_nexts ==
    /\ req.pc = "idle"
    /\ req.n < MaxRequests
    /\ lock # "W"
    /\ late' = late \cup Dispatch(bas, retired)
    /\ req' = [req EXCEPT !.n = @ + 1]
    /\ UNCHANGED <<xlvars, cfgsrc, backends, bas, lock, closed, retired, lc>>

\* ------------------------------------------------------- global, metadata
\* HttpBackend.Query(w, req): an answering backend streams its response into
\* w and returns nil, another returns an error and leaves w alone.
HttpQuery(b, answering, w) ==
    IF b \in answering THEN [w |-> Append(w, b), err |-> "nil"]
    ELSE [w |-> w, err |-> "error"]

\* for _, bs := range ic.backends { if bs.GetDB() == db { err := bs.Query(w, req);
\*   if err != nil { logs.Errorf(...) } } }: order is the order of the range
\* loop, dbOf the DB of each backend.
RECURSIVE RangeBackends(_, _, _, _, _, _)
RangeBackends(order, i, dbOf, db, answering, acc) ==
    IF i > Len(order) THEN acc
    ELSE IF dbOf[order[i]] # db
    THEN RangeBackends(order, i + 1, dbOf, db, answering, acc)
    ELSE RangeBackends(order, i + 1, dbOf, db, answering,
                       [forwarded |-> Append(acc.forwarded, order[i]),
                        w |-> HttpQuery(order[i], answering, acc.w).w])

NoGlobal == [called |-> FALSE, q |-> "", matched |-> FALSE, target |-> "", dbOf |-> <<>>,
             answering |-> {}, kind |-> "", forwarded |-> <<>>, w |-> <<>>, status |-> 0]

\* InfluxCluster.Query once query_executor.Query has returned an error, up to
\* the policy check: matched is GlobalQuery(q), target the database
\* GetDBFromInfluxQL(q) returns ("err" when it fails). kind is "global",
\* "dberr" (400 query error), "forbidden" (400 query forbidden) or "point"
\* (the query goes on to GetMeasurementFromInfluxQL).
Query_global(q, matched, target, dbOf, order, answering) ==
    LET out == RangeBackends(order, 1, dbOf, target, answering,
                             [forwarded |-> <<>>, w |-> <<>>])
        called == [NoGlobal EXCEPT !.called = TRUE, !.q = q, !.matched = matched,
                                   !.target = target, !.dbOf = dbOf,
                                   !.answering = answering]
    IN  /\ gq' = IF matched /\ target = "err"
                 THEN [called EXCEPT !.kind = "dberr", !.status = 400]
                 ELSE IF matched
                 THEN [called EXCEPT !.kind = "global", !.forwarded = out.forwarded,
                                     !.w = out.w, !.status = 200]
                 ELSE IF CheckQuery(q) # "nil"
                 THEN [called EXCEPT !.kind = "forbidden", !.status = 400]
                 ELSE [called EXCEPT !.kind = "point"]
        /\ UNCHANGED <<bvars, kvars, lvars, qvars, wvars, svars, cc, reclosed, sq>>

\* for _, api := range v { ... header, _, sBody, Err := api.QueryResp(req) ... }:
\* the candidates of one measurement. answering are the backends whose
\* QueryResp returns a body; a body and a header are named by their backend.
RECURSIVE RangeCandidates(_, _, _, _)
RangeCandidates(v, i, answering, acc) ==
    IF i > Len(v) THEN acc
    ELSE LET api == apis[v[i]]
         IN  IF api.zone # Zone \/ ~api.active \/ api.writeOnly
             THEN RangeCandidates(v, i + 1, answering, acc)
             ELSE IF v[i] \notin answering
             THEN RangeCandidates(v, i + 1, answering,
                                  [acc EXCEPT !.need = TRUE, !.err = "error"])
             ELSE [acc EXCEPT !.need = TRUE, !.actu = TRUE, !.sHeader = v[i],
                              !.bodys = Append(@, v[i])]

\* for _, v := range m2bs { ...; if need && !actu { sHeader = nil; bodys = nil;
\*   return } }; err = nil; return
RECURSIVE RangeMeasurements(_, _, _, _, _)
RangeMeasurements(keyMap, order, i, answering, acc) ==
    IF i > Len(order) THEN [sHeader |-> acc.sHeader, bodys |-> acc.bodys, err |-> "nil"]
    ELSE LET r == RangeCandidates(keyMap[order[i]], 1, answering,
                                  [acc EXCEPT !.need = FALSE, !.actu = FALSE])
         IN  IF r.need /\ ~r.actu
             THEN [sHeader |-> "nil", bodys |-> <<>>, err |-> r.err]
             ELSE RangeMeasurements(keyMap, order, i + 1, answering, r)

\* InfluxCluster.QueryAll: m2bs := ic.m2bs[db] is nil for an unknown db, and
\* the range loop then has nothing to visit. A nil header is "nil", a nil
\* body list the empty list.
QueryAll(db, order, answering) ==
    RangeMeasurements(IF db \in DOMAIN m2bs THEN m2bs[db] ELSE <<>>, order, 1, answering,
                      [need |-> FALSE, actu |-> FALSE, sHeader |-> "nil", bodys |-> <<>>,
                       err |-> "nil"])

\* strings.Contains(strings.ToLower(q), word): a query is the set of the
\* words "field", "tag" and "retention" it contains.
Contains(q, word) == word \in q

\* sHeader, bodys and err are what QueryAll returned.
NoShow == [called |-> FALSE, db |-> "", q |-> {}, apis |-> <<>>, sHeader |-> "nil",
           bodys |-> <<>>, err |-> "nil", outcome |-> "", body |-> <<>>]

\* InfluxCluster.ShowQuery. parses tells whether showTagFieldkey and
\* showMeasurements can decode the bodies. outcome is "error" (Query answers
\* 400 query error), "response" (200 and a body) or "panic" (bodys[0] on an
\* empty list).
ShowQuery(db, q, order, answering, parses) ==
    LET all == QueryAll(db, order, answering)
        called == [NoShow EXCEPT !.called = TRUE, !.db = db, !.q = q, !.apis = apis,
                                 !.sHeader = all.sHeader, !.bodys = all.bodys,
                                 !.err = all.err]
        merged == IF parses
                  THEN [called EXCEPT !.outcome = "response", !.body = all.bodys]
                  ELSE [called EXCEPT !.outcome = "error"]
    IN  /\ sq' = IF all.err # "nil" THEN [called EXCEPT !.outcome = "error"]
                 ELSE IF Contains(q, "field") \/ Contains(q, "tag") THEN merged
                 ELSE IF Contains(q, "retention")
                 THEN IF Len(all.bodys) = 0 THEN [called EXCEPT !.outcome = "panic"]
                      ELSE [called EXCEPT !.outcome = "response",
                                          !.body = <<all.bodys[1]>>]
                 ELSE merged
        /\ UNCHANGED <<bvars, kvars, lvars, qvars, wvars, svars, cc, reclosed, gq>>

\* ---------------------------------------------------------- InfluxCluster.Close
NoClose == [pc |-> "idle", n |-> 0, done |-> {}]

\* The objects InfluxCluster.Close ranges over.
Range_backends == {backends[name] : name \in DOMAIN backends}

\* ic.lock.RLock(); defer ic.lock.RUnlock()
ClusterClose_lock ==
    /\ cc.pc = "idle"
    /\ cc.n < MaxCloses
    /\ lock = "free"
    /\ lock' = "R"
    /\ cc' = [pc |-> "range", n |-> cc.n + 1, done |-> {}]
    /\ UNCHANGED <<bvars, kvars, qvars, wvars, svars, reclosed, gq, sq, cfgsrc, backends,
                   bas, closed, retired, lc, req, late>>

\* for name, bs := range ic.backends { err = bs.Close() }: one Close. A panic
\* leaves the loop through the deferred RUnlock.
ClusterClose_each(bs) ==
    /\ cc.pc = "range"
    /\ bs \in Range_backends \ cc.done
    /\ IF bs \in closed
       THEN /\ reclosed' = reclosed \cup {bs}
            /\ cc' = [cc EXCEPT !.pc = "panic"]
            /\ lock' = "free"
            /\ UNCHANGED closed
       ELSE /\ closed' = closed \cup {bs}
            /\ cc' = [cc EXCEPT !.done = @ \cup {bs}]
            /\ UNCHANGED <<reclosed, lock>>
    /\ UNCHANGED <<bvars, kvars, qvars, wvars, svars, gq, sq, cfgsrc, backends, bas, retired,
                   lc, req, late>>

\* the range loop is over: return, and the deferred RUnlock
ClusterClose_return ==
    /\ cc.pc = "range"
    /\ Range_backends \subseteq cc.done
    /\ lock' = "free"
    /\ cc' = [cc EXCEPT !.pc = "idle", !.done = {}]
    /\ UNCHANGED <<bvars, kvars, qvars, wvars, svars, reclosed, gq, sq, cfgsrc, backends,
                   bas, closed, retired, lc, req, late>>

\* ------------------------------------------------------------ specification
\* NewBackends: running, an empty channel, no buffer, no timer, the worker started.
BInit ==
    /\ running = TRUE
    /\ ch_write = <<>>
    /\ chClosed = FALSE
    /\ buffer = NilBuffer
    /\ ch_timer = FALSE
    /\ write_counter = 0
    /\ rewriter_running = FALSE
    /\ wg = 0
    /\ wpc = "loop"
    /\ tasks = <<>>
    /\ rw = [s \in 1..MaxRewriters |-> NoRewriter]
    /\ wr = "idle"
    /\ nextLine = 1
    /\ cl = "open"
    /\ active = TRUE
    /\ httpClosed = FALSE
    /\ posted = <<>>
    /\ dropped = {}
    /\ spool = <<>>
    /\ rpos = 0
    /\ meta = 0
    /\ fbClosed = FALSE
    /\ accepted = {}
    /\ rejected = {}
    /\ panicked = FALSE
    /\ deliverLog = <<>>
    /\ terminal = {}
    /\ retried = {}

Next ==
    \/ worker_loop
    \/ worker_recv
    \/ worker_closed
    \/ worker_timer
    \/ worker_tick
    \/ worker_wait
    \/ worker_closeHttp
    \/ worker_closeFb
    \/ \E i \in 1..Len(tasks) : flush_begin(i)
    \/ \E i \in 1..Len(tasks), r \in WriteResults : flush_post(i, r)
    \/ \E i \in 1..Len(tasks) : flush_spool(i)
    \/ \E s \in 1..MaxRewriters : RewriteLoop(s)
    \/ \E s \in 1..MaxRewriters, r \in WriteResults : Rewrite(s, r)
    \/ Write_check
    \/ Write_send
    \/ Close_flag
    \/ Close_chan
    \/ CheckActive

\* NewInfluxCluster before ForbidQuery, EnsureQuery and LoadConfig ran.
CInit ==
    /\ m2bs = <<>>
    /\ ForbiddenQuery = <<>>
    /\ ObligatedQuery = <<>>
    /\ stats = [PointsWritten |-> 0, PointsWrittenFail |-> 0]
    /\ lookup = [called |-> FALSE, measurement |-> <<>>, db |-> "",
                 backends |-> NilBackends, ok |-> FALSE]
    /\ again = [called |-> FALSE, backends |-> NilBackends, ok |-> FALSE]
    /\ verdict = [called |-> FALSE, q |-> "", err |-> "nil"]
    /\ row = [called |-> FALSE, line |-> <<>>, precision |-> "", db |-> "",
              now |-> Zero, panic |-> FALSE]
    /\ sent = NothingSent

\* NewInfluxCluster: no backends, no next hops, no LoadConfig yet.
LInit ==
    /\ cfgsrc = [BACKENDS |-> {}, KEYMAPS |-> <<>>, nexts |-> <<>>]
    /\ backends = <<>>
    /\ bas = <<>>
    /\ lock = "free"
    /\ closed = {}
    /\ retired = {}
    /\ lc = NoLoad
    /\ req = NoRequest
    /\ late = {}

\* Two backends of the local zone that take reads.
QInit ==
    /\ apis = [b \in Backends |-> [zone |-> Zone, active |-> TRUE, writeOnly |-> FALSE]]
    /\ query = [called |-> FALSE, apis |-> <<>>, forwarded |-> <<>>, status |-> 0]

WInit ==
    batch = [called |-> FALSE, p |-> <<>>, db |-> "", failing |-> {}, rows |-> <<>>,
             panic |-> FALSE, nexts |-> NoNexts]

\* NewInfluxCluster: stats and counter point to two zeroed structs; the
\* statistics goroutine waits for its ticker.
SInit ==
    /\ blocks = [b \in Structs |-> 0]
    /\ ptr = [stats |-> "s1", counter |-> "s2"]
    /\ hnd = [h \in 1..MaxHandlers |-> [pc |-> "idle", p |-> "s1"]]
    /\ tk = "wait"
    /\ tally = [adds |-> 0, ticks |-> 0, reported |-> 0,
                fresh |-> [b \in Structs |-> 0], stale |-> 0, lost |-> 0]

\* No Close call, no global query and no ShowQuery yet.
ZInit ==
    /\ cc = NoClose
    /\ reclosed = {}
    /\ gq = NoGlobal
    /\ sq = NoShow

EInit == LInit /\ QInit /\ WInit /\ SInit /\ ZInit

Init == BInit /\ CInit /\ EInit

\* One Backends object and its goroutines.
Spec == Init /\ [][Next]_vars

\* The answers of WriteCompressed after which a record is done.
TerminalResults == {"ok", "ErrBadRequest", "ErrNotFound"}

\* The scheduling the drain relies on: the worker goroutine runs and its select
\* takes the ticker case again and again (select picks among the ready cases
\* at random, and bs.ticker keeps firing); the RewriteLoop goroutine runs; an
\* upstream that is posted to again and again answers with something other
\* than a transient error at some point.
DrainFairness ==
    /\ WF_vars(worker_loop)
    /\ SF_vars(worker_tick)
    /\ \A s \in 1..MaxRewriters : WF_vars(RewriteLoop(s))
    /\ \A s \in 1..MaxRewriters : SF_vars(\E r \in TerminalResults : Rewrite(s, r))

\* Spec under that scheduling.
SpecDrain == Init /\ [][Next]_vars /\ DrainFairness

\* ------------------------------------------------------------- SpecRoute
\* GetBackends on a fixed routing table.
RouteSymbols == {"c", "_default_"}

Strings(symbols, lo, hi) == UNION {[1..n -> symbols] : n \in lo..hi}

RouteKeys == Strings(RouteSymbols, 0, MaxNameLen - 1)

Measurements == Strings(RouteSymbols, 1, MaxNameLen)

BackendLists == {<<"B1">>, <<"B2", "B1">>}

KeyMaps ==
    UNION {[K -> BackendLists] : K \in {S \in SUBSET RouteKeys : Cardinality(S) <= MaxKeys}}

RouteTables == {[d \in {"a"} |-> keyMap] : keyMap \in KeyMaps}

Databases == {"a", "b"}

\* A call of GetBackends.
GetBackends_call(measurement, db) ==
    \E order \in RangeOrders(db) :
        LET got == GetBackends(measurement, db, order)
        IN  /\ lookup' = [called |-> TRUE, measurement |-> measurement, db |-> db,
                          backends |-> got.backends, ok |-> got.ok]
            /\ again' = [called |-> FALSE, backends |-> NilBackends, ok |-> FALSE]
            /\ UNCHANGED <<bvars, evars, m2bs, ForbiddenQuery, ObligatedQuery, stats, verdict,
                           row, sent>>

\* A second call with the arguments of the last one.
GetBackends_again ==
    /\ lookup.called
    /\ \E order \in RangeOrders(lookup.db) :
        LET got == GetBackends(lookup.measurement, lookup.db, order)
        IN  again' = [called |-> TRUE, backends |-> got.backends, ok |-> got.ok]
    /\ UNCHANGED <<bvars, evars, m2bs, ForbiddenQuery, ObligatedQuery, stats, lookup, verdict,
                   row, sent>>

InitRoute ==
    /\ BInit
    /\ CInit!2 /\ CInit!3 /\ CInit!4 /\ CInit!5 /\ CInit!6 /\ CInit!7 /\ CInit!8 /\ CInit!9
    /\ m2bs \in RouteTables
    /\ EInit

NextRoute ==
    \/ \E measurement \in Measurements, db \in Databases : GetBackends_call(measurement, db)
    \/ GetBackends_again

SpecRoute == InitRoute /\ [][NextRoute]_vars

\* ------------------------------------------------------------ SpecPolicy
\* The query policy: ForbidQuery and EnsureQuery build the lists, CheckQuery
\* evaluates them.
Queries == {"q1", "q2"}

Patterns ==
    {[valid |-> TRUE, matches |-> S] : S \in SUBSET Queries}
        \cup {[valid |-> FALSE, matches |-> {}]}

\* A call of CheckQuery.
CheckQuery_call(q) ==
    /\ verdict' = [called |-> TRUE, q |-> q, err |-> CheckQuery(q)]
    /\ UNCHANGED <<bvars, evars, m2bs, ForbiddenQuery, ObligatedQuery, stats, lookup, again,
                   row, sent>>

NextPolicy ==
    \/ \E re \in Patterns : ForbidQuery(re)
    \/ \E re \in Patterns : EnsureQuery(re)
    \/ \E q \in Queries : CheckQuery_call(q)

SpecPolicy == Init /\ [][NextPolicy]_vars

\* --------------------------------------------------------------- SpecRow
\* WriteRow on lines of one, two, three and four tokens.
cpu == <<"c", "p", "u">>

RowKeys == {cpu, cpu \o <<",", "h", "o", "s", "t", "=", "x">>}

RowFields == <<"v", "=", "1">>

\* Timestamp tokens: every token of up to MaxTsLen symbols, and some epochs.
TsSymbols == {"-", "0", "1", "9"}

TsTokens ==
    Strings(TsSymbols, 1, MaxTsLen) \cup
        {<<"1", "0", "0", "0">>,
         <<"-", "1", "0", "0", "0">>,
         <<"1", "5", "0", "0", "0", "0", "0", "0", "9", "9">>,
         <<"6", "0", "0", "0", "0", "0", "0", "0", "0", "0", "1">>,
         <<"3", "6", "0", "0", "0", "0", "0", "0", "0", "0", "0", "0", "1">>}

RowLines ==
    LET two == {k \o <<" ">> \o RowFields : k \in RowKeys}
        three == {l \o <<" ">> \o t : l \in two, t \in TsTokens}
        four == {k \o <<" ", "v", "=", "\"", "a", " ", "b", "\"", " ", "1", "0", "0", "0">> :
                     k \in RowKeys}
    IN  two \cup three \cup four \cup RowKeys \cup {l \o <<"\n">> : l \in three}
            \cup {<<>>, <<"\n">>}

Precisions == {"ns", "u", "ms", "s", "m", "h", "n"}

\* time.Now().UnixNano()
Nows == {[neg |-> FALSE, hi |-> 17000000, lo |-> 123456]}

RowTables ==
    {[d \in {"a"} |-> (cpu :> <<"B1">>)],
     [d \in {"a"} |-> (<<"c", "p">> :> <<"B1", "B2">>) @@ (DefaultKey :> <<"B2">>)],
     [d \in {"a"} |-> (DefaultKey :> <<"B2", "B1">>)]}

InitRow ==
    /\ BInit
    /\ CInit!2 /\ CInit!3 /\ CInit!4 /\ CInit!5 /\ CInit!6 /\ CInit!7 /\ CInit!8 /\ CInit!9
    /\ m2bs \in RowTables
    /\ EInit

\* One WriteRow call of a handler.
WriteRow_call ==
    /\ ~row.called
    /\ \E line \in RowLines, precision \in Precisions, db \in Databases, now \in Nows,
          failing \in SUBSET Backends :
          \E order \in RangeOrders(db) : WriteRow(line, precision, db, now, order, failing)

NextRow == WriteRow_call

SpecRow == InitRow /\ [][NextRow]_vars

\* ------------------------------------------------------------- SpecReload
\* LoadConfig, run MaxReloads times, and write handlers beside it.
ConfigSources ==
    {[BACKENDS |-> names, KEYMAPS |-> [d \in {"a"} |-> (cpu :> list)], nexts |-> nexts] :
        names \in {{"B1"}, {"B1", "B2"}},
        list \in BackendLists,
        nexts \in {<<>>, <<"B1">>, <<"B2">>}}

InitReload ==
    /\ BInit
    /\ CInit
    /\ LInit!2 /\ LInit!3 /\ LInit!4 /\ LInit!5 /\ LInit!6 /\ LInit!7 /\ LInit!8 /\ LInit!9
    /\ cfgsrc \in ConfigSources
    /\ QInit
    /\ WInit
    /\ SInit
    /\ ZInit

NextReload ==
    \/ LoadConfig_load
    \/ LoadConfig_lock
    \/ LoadConfig_backends
    \/ LoadConfig_bas
    \/ LoadConfig_m2bs
    \/ \E bs \in CloseList(lc) : LoadConfig_close(bs)
    \/ LoadConfig_return
    \/ \E db \in Databases : Request_lookup(cpu, db)
    \/ Request_write
    \/ Request_nexts

SpecReload == InitReload /\ [][NextReload]_vars

\* -------------------------------------------------------------- SpecClose
\* Reloads and write requests together with calls of InfluxCluster.Close.
NextClose ==
    \/ NextReload
    \/ ClusterClose_lock
    \/ \E bs \in Range_backends : ClusterClose_each(bs)
    \/ ClusterClose_return

SpecClose == InitReload /\ [][NextClose]_vars

\* ------------------------------------------------------------- SpecGlobal
\* One query that the executor did not answer, under every query policy.
GlobalDbs == {"a", "b"}

Query_global_call ==
    /\ ~gq.called
    /\ \E q \in Queries, matched \in BOOLEAN, target \in GlobalDbs \cup {"err"},
          dbOf \in [Backends -> GlobalDbs], answering \in SUBSET Backends :
          \E order \in Orders(Backends) :
              Query_global(q, matched, target, dbOf, order, answering)

NextGlobal ==
    \/ \E re \in Patterns : ForbidQuery(re)
    \/ \E re \in Patterns : EnsureQuery(re)
    \/ Query_global_call

SpecGlobal == Init /\ [][NextGlobal]_vars

\* -------------------------------------------------------------- SpecQuery
\* Point queries for cpu on the routing tables of SpecRow, over backends of
\* every zone assignment, write-only setting and health.
InitQuery ==
    /\ BInit
    /\ CInit!2 /\ CInit!3 /\ CInit!4 /\ CInit!5 /\ CInit!6 /\ CInit!7 /\ CInit!8 /\ CInit!9
    /\ m2bs \in RowTables
    /\ LInit
    /\ QInit!2
    /\ apis \in [Backends -> [zone : Zones, active : {TRUE}, writeOnly : BOOLEAN]]
    /\ WInit
    /\ SInit
    /\ ZInit

NextQuery ==
    \/ \E db \in Databases, answering \in SUBSET Backends :
          \E order \in RangeOrders(db) : Query(cpu, db, order, answering)
    \/ \E b \in Backends : CheckApi(b)

SpecQuery == InitQuery /\ [][NextQuery]_vars

\* --------------------------------------------------------------- SpecShow
\* One metadata request on the routing tables and backends of SpecQuery.
ShowQueries == SUBSET {"field", "tag", "retention"}

ShowQuery_call ==
    /\ ~sq.called
    /\ \E db \in Databases, q \in ShowQueries, answering \in SUBSET Backends,
          parses \in BOOLEAN :
          \E order \in RangeOrders(db) : ShowQuery(db, q, order, answering, parses)

NextShow ==
    \/ ShowQuery_call
    \/ \E b \in Backends : CheckApi(b)

SpecShow == InitQuery /\ [][NextShow]_vars

\* -------------------------------------------------------------- SpecWrite
\* One Write request of up to MaxLines lines on the routing tables of SpecRow,
\* with and without next hops.
\* A line that is delivered, one of an unknown measurement, one without a
\* separator, one that ends in a backslash.
PayloadLines ==
    {cpu \o <<" ">> \o RowFields \o <<" ", "1">>,
     <<"m", " ">> \o RowFields,
     cpu,
     cpu \o <<"\\">>}

\* The lines, each ended by a newline, the last with or without one.
Payloads ==
    LET ended == {l \o <<"\n">> : l \in PayloadLines}
        heads == UNION {[1..n -> ended] : n \in 0..(MaxLines - 1)}
    IN  {IF Len(h) = 0 THEN l ELSE Join(h) \o l : h \in heads, l \in PayloadLines \cup ended}

NextHops == {<<>>, <<"B2">>, <<"B1", "B2">>}

InitWrite ==
    /\ BInit
    /\ CInit!2 /\ CInit!3 /\ CInit!4 /\ CInit!5 /\ CInit!6 /\ CInit!7 /\ CInit!8 /\ CInit!9
    /\ m2bs \in RowTables
    /\ LInit!1 /\ LInit!2 /\ LInit!4 /\ LInit!5 /\ LInit!6 /\ LInit!7 /\ LInit!8 /\ LInit!9
    /\ bas \in NextHops
    /\ QInit
    /\ WInit
    /\ SInit
    /\ ZInit

\* One Write call of a handler.
Write_call ==
    /\ ~batch.called
    /\ \E p \in Payloads, db \in Databases, now \in Nows, failing \in SUBSET Backends :
          \E orders \in [1..MaxLines -> RangeOrders(db)] :
              \E precision \in {"ns", "s"} : Write(p, precision, db, now, orders, failing)

NextWrite == Write_call

SpecWrite == InitWrite /\ [][NextWrite]_vars

\* -------------------------------------------------------------- SpecStats
\* Handlers incrementing one counter beside the statistics goroutine.
NextStats ==
    \/ \E h \in 1..MaxHandlers : AddInt64_load(h)
    \/ \E h \in 1..MaxHandlers : AddInt64_add(h)
    \/ statistics_tick
    \/ statistics_Flush
    \/ statistics_swap
    \/ statistics_WriteStatistics

SpecStats == Init /\ [][NextStats]_vars

\* -------------------------------------------------------------- SpecBatch
\* The worker batching payloads of one line (WriteRow) and of several lines
\* (the next-hop loop of InfluxCluster.Write hands the whole request payload
\* to Backends.Write). A payload is the sequence of its lines.
BatchPayloads == {[i \in 1..n |-> "row"] : n \in 1..MaxLines}

\* Backends.Write of a running backend: bs.ch_write <- p
Write_payload(p) ==
    /\ running
    /\ nextLine <= MaxWrites
    /\ Len(ch_write) < WRITE_QUEUE
    /\ ch_write' = Append(ch_write, p)
    /\ nextLine' = nextLine + 1
    /\ UNCHANGED <<cvars, running, chClosed, buffer, ch_timer, write_counter,
                   rewriter_running, wg, wpc, tasks, rw, wr, cl, active,
                   httpClosed, posted, dropped, spool, rpos, meta, fbClosed,
                   accepted, rejected, panicked, deliverLog, terminal, retried>>

NextBatch ==
    \/ \E p \in BatchPayloads : Write_payload(p)
    \/ worker_loop
    \/ worker_recv
    \/ worker_timer

SpecBatch == Init /\ [][NextBatch]_vars

\* ================================================================= claims
Range(f) == {f[i] : i \in DOMAIN f}

\* ------------------------------------------------------------------- C1
\* The lines the upstream answered for (ack or permanent drop) or the spool holds.
Delivered == UNION {LinesOf(c) : c \in Range(posted) \cup dropped \cup Range(spool)}

\* No goroutine of the backend has anything left to do for the buffer.
Settled == wpc = "done" /\ \A i \in 1..Len(tasks) : tasks[i].pc = "done"

\* C1: once the worker has ended and every flush goroutine has finished, every
\* line whose Write returned nil was sent to the upstream or is in the spool.
C1_NoAcceptedLineLost == (Settled /\ ~panicked) => accepted \subseteq Delivered

\* ------------------------------------------------------------------- C2
PrefixKeys(measurement, keyMap) == {k \in DOMAIN keyMap : HasPrefix(measurement, k)}

\* The precedence exact key, then some prefix key, then _default_, then failure.
Precedence(call, measurement, db) ==
    IF db \notin DOMAIN m2bs THEN ~call.ok
    ELSE LET keyMap == m2bs[db]
             prefixes == PrefixKeys(measurement, keyMap)
         IN  IF measurement \in DOMAIN keyMap
             THEN call.ok /\ call.backends = keyMap[measurement]
             ELSE IF prefixes # {}
             THEN call.ok /\ call.backends \in {keyMap[k] : k \in prefixes}
             ELSE IF DefaultKey \in DOMAIN keyMap
             THEN call.ok /\ call.backends = keyMap[DefaultKey]
             ELSE ~call.ok

\* C2 (amended): GetBackends returns the list of the exact key; otherwise the
\* list of a key that is a prefix of the measurement, the key _default_ being
\* one of them when the measurement starts with _default_; otherwise the list
\* of _default_; otherwise it fails.
C2_Precedence == lookup.called => Precedence(lookup, lookup.measurement, lookup.db)

\* C2 (as claimed): the same, and when a key other than _default_ is a prefix
\* of the measurement (and no key is exact) the list returned is the list of
\* such a key, never that of _default_.
C2_DefaultNeverBeatsPrefix ==
    lookup.called =>
        /\ Precedence(lookup, lookup.measurement, lookup.db)
        /\ lookup.db \in DOMAIN m2bs =>
            LET keyMap == m2bs[lookup.db]
                others == PrefixKeys(lookup.measurement, keyMap) \ {DefaultKey}
            IN  (lookup.measurement \notin DOMAIN keyMap /\ others # {})
                    => lookup.backends \in {keyMap[k] : k \in others}

\* A lookup resolved by a prefix key although _default_ has another list.
C2_Witness ==
    /\ lookup.called
    /\ lookup.db \in DOMAIN m2bs
    /\ lookup.measurement \notin DOMAIN m2bs[lookup.db]
    /\ PrefixKeys(lookup.measurement, m2bs[lookup.db]) # {}
    /\ DefaultKey \in DOMAIN m2bs[lookup.db]
    /\ ~HasPrefix(lookup.measurement, DefaultKey)
    /\ lookup.backends # m2bs[lookup.db][DefaultKey]

\* ------------------------------------------------------------------- C3
\* C3: two calls of GetBackends with the same arguments on the same routing
\* table return the same backend list.
C3_Deterministic ==
    (lookup.called /\ again.called) =>
        (again.ok = lookup.ok /\ again.backends = lookup.backends)

\* ------------------------------------------------------------------- C4
Denied(q) == \E i \in 1..Len(ForbiddenQuery) : q \in ForbiddenQuery[i].matches

Allowed(q) == \E i \in 1..Len(ObligatedQuery) : q \in ObligatedQuery[i].matches

\* C4: CheckQuery allows q exactly when q matches no denylist pattern and the
\* allowlist is empty or has a pattern q matches.
C4_PolicyVerdict ==
    verdict.called =>
        (verdict.err = "nil"
            <=> (~Denied(verdict.q) /\ (ObligatedQuery = <<>> \/ Allowed(verdict.q))))

\* A query on both lists was rejected.
C4_Witness ==
    /\ verdict.called
    /\ Denied(verdict.q)
    /\ Allowed(verdict.q)
    /\ verdict.err = "ErrQueryForbidden"

\* ------------------------------------------------------------------- C5
IsDigits(token) == \A i \in 1..Len(token) : token[i] \in Range(DigitChars)

\* A decimal integer, with an optional sign.
IsInteger(token) ==
    \/ Len(token) >= 1 /\ IsDigits(token)
    \/ Len(token) >= 2 /\ token[1] = "-" /\ IsDigits(Tail(token))

\* The integer a decimal token denotes.
IntegerOf(token) ==
    IF token[1] = "-"
    THEN [BytesToInt64(Tail(token)) EXCEPT !.neg = TRUE]
    ELSE BytesToInt64(token)

\* The lines the last WriteRow call handed to backends.
HandedOver == UNION {Range(sent[b]) : b \in Backends}

\* C5: a routed line of three tokens, the last the integer t, reaches the
\* backends with its first two tokens unchanged and the timestamp (t / d) * d.
C5_TimestampTruncated ==
    LET tokens == Split(TrimRight(row.line))
        expected == Truncate(IntegerOf(tokens[3]), GetPrecisionMultiplier(row.precision))
    IN  (/\ row.called
         /\ Len(tokens) = 3
         /\ IsInteger(tokens[3])
         /\ row.precision \in {"ns", "u", "ms", "s", "m", "h"})
            => \A l \in HandedOver :
                   l = tokens[1] \o <<" ">> \o tokens[2] \o <<" ">> \o Int64ToBytes(expected)

\* ------------------------------------------------------------------- C6
\* C6: with the table {a: {cpu: [B1]}}, the line `cpu,host=x v=1 1000` written
\* at precision ms reaches B1 as `cpu,host=x v=1 1000000000`.
C6_ExactRouteScenario ==
    LET head == cpu \o <<",", "h", "o", "s", "t", "=", "x", " ", "v", "=", "1", " ">>
    IN  (/\ row.called
         /\ m2bs = [d \in {"a"} |-> (cpu :> <<"B1">>)]
         /\ row.line = head \o <<"1", "0", "0", "0">>
         /\ row.precision = "ms"
         /\ row.db = "a"
         /\ sent["B1"] # <<>>)
            => sent["B1"] = <<head \o <<"1", "0", "0", "0", "0", "0", "0", "0", "0", "0">>>>

\* ------------------------------------------------------------------- C7
\* C7: no Write sends on the closed channel: a Write that did not enqueue
\* before the close returned io.ErrClosedPipe.
C7_NoSendOnClosedChannel == ~panicked /\ wr # "panic"

\* ------------------------------------------------------------------- C8
Rewriters == {s \in 1..MaxRewriters : rw[s].pc # "none"}

\* C8: at most one RewriteLoop goroutine of the backend is running.
C8_AtMostOneRewriter == Cardinality(Rewriters) <= 1

\* A RewriteLoop replays a later record while the worker still serves ticks
\* and a flush goroutine is about to append to the spool.
C8_Witness ==
    /\ \E s \in Rewriters : rw[s].pc = "post"
    /\ meta >= 1
    /\ wpc = "select"
    /\ \E i \in 1..Len(tasks) : tasks[i].pc = "spool"

\* ------------------------------------------------------------------- C9
\* C9: every committed spool position had a replay that ended ok, ErrBadRequest
\* or ErrNotFound; outside a replay the read position is the committed one, so
\* the record read next is the first uncommitted one; during a replay the
\* record in flight is that record.
C9_CommitAfterTerminalOutcome ==
    /\ \A i \in 1..meta : i \in terminal
    /\ (\A s \in 1..MaxRewriters : rw[s].pc # "post") => rpos = meta
    /\ \A s \in 1..MaxRewriters :
           rw[s].pc = "post" => (rpos = meta + 1 /\ rw[s].at = rpos /\ rw[s].p = spool[rpos])

\* A record whose replay failed, was rolled back, read again and committed.
C9_Witness == \E i \in retried : i \in terminal /\ i <= meta

\* ------------------------------------------------------------------ C10
\* Is the sequence of payloads in the order their lines were accepted
InOrder(payloads) ==
    \A i, j \in 1..Len(payloads) :
        i < j => payloads[i].gz[Len(payloads[i].gz)] < payloads[j].gz[1]

\* C10: the payloads reach the upstream or the spool in the order their lines
\* were accepted, and the upstream receives the replayed ones in that order.
C10_DeliveryInOrder == InOrder(deliverLog) /\ InOrder(posted)

\* ------------------------------------------------------------------ C11
\* The spool holds no undelivered record, every record of it was posted to the
\* upstream, and no RewriteLoop is marked running.
Drained ==
    /\ ~IsData
    /\ ~rewriter_running
    /\ Range(spool) \subseteq (Range(posted) \cup dropped)

\* C11: if from some point on the upstream is active and the backend is
\* running, then from some point on the spool is drained: IsData is false,
\* every spooled record was posted, and rewriter_running is false.
C11_SpoolDrains == <>[](active /\ running) => <>[]Drained

\* Two flushes went to the spool, a replay failed and was retried, and the
\* spool is drained while the backend is running and the upstream active.
C11_Witness ==
    /\ Len(spool) >= 2
    /\ retried # {}
    /\ Drained
    /\ running
    /\ active

\* ------------------------------------------------------------------ C12
\* The objects of the names of a list that BACKENDS configures, in order.
KnownOf(names, n) ==
    LET known == SelectSeq(names, LAMBDA name : name \in cfgsrc.BACKENDS)
    IN  [i \in 1..Len(known) |-> NewBackendsObject(known[i], n)]

\* Does the configuration reference a backend name that BACKENDS lacks
UnknownReference ==
    \/ \E i \in 1..Len(cfgsrc.nexts) : cfgsrc.nexts[i] \notin cfgsrc.BACKENDS
    \/ \E db \in DOMAIN cfgsrc.KEYMAPS : \E k \in DOMAIN cfgsrc.KEYMAPS[db] :
           \E i \in 1..Len(cfgsrc.KEYMAPS[db][k]) :
               cfgsrc.KEYMAPS[db][k][i] \notin cfgsrc.BACKENDS

\* C12: a LoadConfig whose configuration references an unknown backend name
\* returns without error and has installed the new backends, the next-hop
\* list and the routing table built from the known references.
C12_UnknownReferenceSkipped ==
    (lc.pc = "returned" /\ UnknownReference) =>
        /\ lc.err = "nil"
        /\ backends = [name \in cfgsrc.BACKENDS |-> NewBackendsObject(name, lc.n)]
        /\ bas = KnownOf(cfgsrc.nexts, lc.n)
        /\ m2bs = [db \in DOMAIN cfgsrc.KEYMAPS |->
                      [k \in DOMAIN cfgsrc.KEYMAPS[db] |->
                          KnownOf(cfgsrc.KEYMAPS[db][k], lc.n)]]

\* ------------------------------------------------------------------ C20
\* The Backends objects the cluster has installed.
Installed ==
    Range(backends) \cup Range(bas)
        \cup UNION {UNION {Range(m2bs[db][k]) : k \in DOMAIN m2bs[db]} : db \in DOMAIN m2bs}

Generations(objects) == {bs.gen : bs \in objects}

\* C20: whenever the lock is not held by LoadConfig, the backends, the
\* next-hop list and the routing table are of one LoadConfig call, and so is
\* every list a lookup returned; a closed object is of a generation a
\* completed swap replaced and is installed nowhere; a handler dispatched to
\* a closed object only if it looked its list up before the swap that
\* replaced the object's generation.
C20_ReloadAtomic ==
    /\ lock = "free" => Cardinality(Generations(Installed)) <= 1
    /\ Cardinality(Generations(Range(req.bs))) <= 1
    /\ closed \cap Installed = {}
    /\ Generations(closed) \subseteq retired
    /\ \A d \in late : d.bs.gen \notin d.retired

\* A handler looked its list up, a second LoadConfig swapped and closed the
\* objects of the first, and the handler then wrote to one of them.
C20_Witness ==
    /\ late # {}
    /\ lc.n = MaxReloads
    /\ lc.pc = "returned"
    /\ lc.err = "nil"
    /\ Installed # {}

\* ------------------------------------------------------------------ C13
\* C13: a point query is forwarded only to backends that are active and not
\* write-only.
C13_NoReadFromWriteOnly ==
    query.called =>
        \A i \in 1..Len(query.forwarded) :
            /\ query.apis[query.forwarded[i]].active
            /\ ~query.apis[query.forwarded[i]].writeOnly

\* ------------------------------------------------------------------ C14
\* The non-empty lines of a payload.
RECURSIVE RowsOf(_, _, _)
RowsOf(p, i, cur) ==
    IF i > Len(p) THEN (IF cur = <<>> THEN <<>> ELSE <<cur>>)
    ELSE IF p[i] = "\n"
    THEN (IF cur = <<>> THEN <<>> ELSE <<cur>>) \o RowsOf(p, i + 1, <<>>)
    ELSE RowsOf(p, i + 1, Append(cur, p[i]))

\* The destinations of a row up to the first one whose Write fails.
RECURSIVE Reached(_, _, _)
Reached(dests, i, failing) ==
    IF i > Len(dests) \/ dests[i] \in failing THEN {}
    ELSE {dests[i]} \cup Reached(dests, i + 1, failing)

\* C14: Write processes every line of the payload; a line whose key cannot be
\* scanned, that has no route or whose backend write fails counts one
\* PointsWrittenFail and reaches no backend after the failure, every other
\* line counts none and reaches all its destinations.
C14_BadRowDoesNotStopBatch ==
    batch.called =>
        /\ Len(batch.rows) = Len(RowsOf(batch.p, 1, <<>>))
        /\ \A i \in 1..Len(batch.rows) :
               batch.rows[i].fails =
                   IF batch.rows[i].kind \in {"scan", "panic", "route", "write"}
                   THEN 1 ELSE 0
        /\ \A b \in Backends :
               Len(sent[b]) =
                   Cardinality({i \in 1..Len(batch.rows) :
                                   b \in Reached(batch.rows[i].dests, 1, batch.failing)})

C16_SnapshotAtomic == tally.stale = 0 /\ tally.lost = 0

\* ------------------------------------------------------------------ C17
\* C17: the worker ends only with an empty buffer and with the HttpBackend
\* and the FileBackend closed; the FileBackend is closed after the
\* HttpBackend, and only when every flush goroutine has finished.
C17_ShutdownSequence ==
    /\ wpc = "done" => (buffer = NilBuffer /\ httpClosed /\ fbClosed)
    /\ fbClosed => httpClosed
    /\ httpClosed => (wg = 0 /\ \A i \in 1..Len(tasks) : tasks[i].pc = "done")

\* ------------------------------------------------------------------ C18
\* How many records of the spool are the payload c
Appended(c) == Cardinality({j \in 1..Len(spool) : spool[j] = c})

\* C18: a flush goroutine that has finished appended its payload to the spool
\* exactly once if the upstream was not active or WriteCompressed answered an
\* error other than ErrBadRequest and ErrNotFound, and not at all if it
\* answered ok, ErrBadRequest or ErrNotFound; one that has not finished has
\* appended nothing.
C18_FlushOutcome ==
    \A i \in 1..Len(tasks) :
        Appended(tasks[i].p) =
            IF tasks[i].pc = "done" /\ tasks[i].res = "retry" THEN 1 ELSE 0

\* Two flushes were spooled, one was dropped after a permanent error and one
\* was acknowledged.
C18_Witness ==
    /\ Cardinality({i \in 1..Len(tasks) : tasks[i].pc = "done" /\ tasks[i].res = "retry"}) = 2
    /\ \E i \in 1..Len(tasks) :
           tasks[i].pc = "done" /\ tasks[i].res = "final" /\ tasks[i].p \in dropped
    /\ Len(spool) = 2

\* ------------------------------------------------------------------ C19
\* The number of lines of a sequence of payloads.
RECURSIVE LineCount(_)
LineCount(payloads) ==
    IF Len(payloads) = 0 THEN 0 ELSE Len(Head(payloads)) + LineCount(Tail(payloads))

\* C19: write_counter is the number of lines in the buffer and is below
\* MaxRowLimit, and the flush timer is armed exactly when the buffer holds a
\* line.
C19_BatchingRule ==
    /\ write_counter = LineCount(buffer.data)
    /\ write_counter < MaxRowLimit
    /\ ch_timer <=> LineCount(buffer.data) > 0

\* ------------------------------------------------------------------ C24
\* The measurement, tags and fields of a trimmed line: the whole line when it
\* has one or two tokens, otherwise all tokens but the trailing timestamp.
Content(tokens) ==
    IF Len(tokens) <= 2 THEN Join(tokens) ELSE Join(SubSeq(tokens, 1, Len(tokens) - 1))

\* C24: every line WriteRow hands to a backend is the content of the original
\* line, one space and one timestamp, whatever the number of tokens.
C24_ContentKept ==
    LET content == Content(Split(TrimRight(row.line))) \o <<" ">>
    IN  row.called =>
            \A l \in HandedOver :
                /\ Len(l) > Len(content)
                /\ SubSeq(l, 1, Len(content)) = content
                /\ IsInteger(SubSeq(l, Len(content) + 1, Len(l)))

\* ------------------------------------------------------------------ C22
\* C22: Close is called at most once on each Backends object, whatever
\* LoadConfig and InfluxCluster.Close calls are made.
C22_ClosedOnce == reclosed = {}

\* ------------------------------------------------------------------ C21
\* The backends of the database a global query names.
Matching == {b \in Backends : gq.dbOf[b] = gq.target}

\* C21: a global query reaches every backend of the database it names and no
\* other, whether or not some of them fail and whatever the query policy
\* says, and the client gets one response, that of the first backend that
\* answered.
C21_GlobalFanOut ==
    /\ (gq.called /\ gq.matched /\ gq.target # "err") => gq.kind = "global"
    /\ (gq.called /\ gq.kind = "global") =>
           /\ Range(gq.forwarded) = Matching
           /\ Len(gq.forwarded) = Cardinality(Matching)
           /\ Len(gq.w) <= 1
           /\ \A i \in 1..Len(gq.forwarded) :
                  (/\ gq.forwarded[i] \in gq.answering
                   /\ \A j \in 1..(i - 1) : gq.forwarded[j] \notin gq.answering)
                      => gq.w = <<gq.forwarded[i]>>

\* ------------------------------------------------------------------ C23
\* No measurement of the database of the last ShowQuery call had a backend of
\* the local zone that was active and not write-only.
NoCandidate ==
    \/ sq.db \notin DOMAIN m2bs
    \/ \A k \in DOMAIN m2bs[sq.db] : \A i \in 1..Len(m2bs[sq.db][k]) :
           LET api == sq.apis[m2bs[sq.db][k][i]]
           IN  api.zone # Zone \/ ~api.active \/ api.writeOnly

\* C23: without a candidate QueryAll returns no body, no error and no header,
\* and every metadata request ends with a response, never with a fault on an
\* empty body list.
C23_ShowQueryResponds ==
    sq.called =>
        /\ NoCandidate => sq.bodys = <<>> /\ sq.err = "nil" /\ sq.sHeader = "nil"
        /\ sq.outcome # "panic"

====
